---------------------------- MODULE Spec2Model ----------------------------
(***************************************************************************)
(* querydb: refresh stations.list from a PostgreSQL view.                  *)
(*                                                                         *)
(* Text is a sequence of one-character strings, so that strip(), lower(),  *)
(* the regular expressions and endswith() are computed character by        *)
(* character.  A Python value is a record [t, s, l]: None, an object whose *)
(* str() is s, or a list of floats whose str() are the elements of l.      *)
(***************************************************************************)
EXTENDS Integers, Sequences, FiniteSets, TLC

\* ------------------------------------------------------------------ bounds
MaxLen == 4       \* longest raw token drawn for normalize_token
MaxRows == 2      \* longest batch fetch_rows returns
MaxCycles == 2    \* refresh cycles one process runs

\* -------------------------------------------------------------- characters
Whitespace == {" ", "\t", "\n"}
UpperCase == <<"A", "B", "C", "D", "E", "F", "G", "H", "I", "J", "K", "L", "M",
               "N", "O", "P", "Q", "R", "S", "T", "U", "V", "W", "X", "Y", "Z">>
LowerCase == <<"a", "b", "c", "d", "e", "f", "g", "h", "i", "j", "k", "l", "m",
               "n", "o", "p", "q", "r", "s", "t", "u", "v", "w", "x", "y", "z">>
Digits == {"0", "1", "2", "3", "4", "5", "6", "7", "8", "9"}
Letters == {UpperCase[k] : k \in 1..26} \cup {LowerCase[k] : k \in 1..26}

SPACE_ENC == "|"

LowerChar(c) ==
    IF \E k \in 1..26 : UpperCase[k] = c
    THEN LowerCase[CHOOSE k \in 1..26 : UpperCase[k] = c]
    ELSE c

\* str.lower()
Lower(s) == [k \in 1..Len(s) |-> LowerChar(s[k])]

RECURSIVE LStrip(_)
LStrip(s) == IF s # <<>> /\ Head(s) \in Whitespace THEN LStrip(Tail(s)) ELSE s

RECURSIVE RStrip(_)
RStrip(s) ==
    IF s # <<>> /\ s[Len(s)] \in Whitespace
    THEN RStrip(SubSeq(s, 1, Len(s) - 1))
    ELSE s

\* str.strip()
Strip(s) == RStrip(LStrip(s))

\* str.endswith()
EndsWith(s, suffix) ==
    /\ Len(s) >= Len(suffix)
    /\ SubSeq(s, Len(s) - Len(suffix) + 1, Len(s)) = suffix

\* ------------------------------------------------------------ Python values
NoneV == [t |-> "none", s |-> <<>>, l |-> <<>>]
StrV(s) == [t |-> "str", s |-> s, l |-> <<>>]
ListV(l) == [t |-> "list", s |-> <<>>, l |-> l]

RECURSIVE JoinComma(_)
JoinComma(l) ==
    IF l = <<>> THEN <<>>
    ELSE IF Len(l) = 1 THEN Head(l)
    ELSE Head(l) \o <<",", " ">> \o JoinComma(Tail(l))

\* str(v) of a value that is not None
PyStr(v) == IF v.t = "list" THEN <<"[">> \o JoinComma(v.l) \o <<"]">> ELSE v.s

\* ---------------------------------------------------------------- FLOAT_RE
Signs == {"-", "+"}

RECURSIVE DigitsEnd(_, _)
\* first position at or after i that does not hold a digit: \d+ from i
DigitsEnd(s, i) ==
    IF i <= Len(s) /\ s[i] \in Digits THEN DigitsEnd(s, i + 1) ELSE i

\* FLOAT_RE matched at position i: the position after the match, 0 for no match
FloatMatchEnd(s, i) ==
    LET a == IF i <= Len(s) /\ s[i] \in Signs THEN i + 1 ELSE i
        b == DigitsEnd(s, a)
        c == IF b <= Len(s) /\ s[b] = "." /\ DigitsEnd(s, b + 1) > b + 1
             THEN DigitsEnd(s, b + 1) ELSE b
        x == IF c + 1 <= Len(s) /\ s[c + 1] \in Signs THEN c + 2 ELSE c + 1
        d == IF c <= Len(s) /\ s[c] \in {"e", "E"} /\ DigitsEnd(s, x) > x
             THEN DigitsEnd(s, x) ELSE c
    IN  IF b = a THEN 0 ELSE d

RECURSIVE FloatFindAll(_, _)
\* FLOAT_RE.findall(s), scanning from position i
FloatFindAll(s, i) ==
    IF i > Len(s) THEN <<>>
    ELSE LET m == FloatMatchEnd(s, i)
         IN  IF m = 0 THEN FloatFindAll(s, i + 1)
             ELSE <<SubSeq(s, i, m - 1)>> \o FloatFindAll(s, m)

\* parse_ecef_xyz: <<>> stands for None, otherwise the three coordinates
parse_ecef_xyz(v) ==
    IF v.t = "none" THEN <<>>
    ELSE IF v.t = "list" /\ Len(v.l) >= 3 THEN <<v.l[1], v.l[2], v.l[3]>>
    ELSE LET nums == FloatFindAll(PyStr(v), 1)
         IN  IF Len(nums) < 3 THEN <<>> ELSE <<nums[1], nums[2], nums[3]>>

\* -------------------------------------------------------------- safe_ident
IdentChars == Letters \cup Digits \cup {"_", ".", ","} \cup Whitespace

\* a variant that lets the statement separator through
safe_ident_lax(s) == s # <<>> /\ \A k \in 1..Len(s) : s[k] \in IdentChars \cup {";"}

\* safe_ident returns (TRUE) or raises ValueError (FALSE)
safe_ident(s) == s # <<>> /\ \A k \in 1..Len(s) : s[k] \in IdentChars

\* --------------------------------------------------------- normalize_token
RECURSIVE SubRuns(_)
\* re.sub(r"\s+", SPACE_ENC, s)
SubRuns(s) ==
    IF s = <<>> THEN <<>>
    ELSE IF Head(s) \in Whitespace THEN <<SPACE_ENC>> \o SubRuns(LStrip(s))
    ELSE <<Head(s)>> \o SubRuns(Tail(s))

\* a variant that encodes each whitespace character on its own
normalize_token_each(v, default) ==
    IF v.t = "none" THEN default
    ELSE LET s == Strip(PyStr(v))
         IN  IF s = <<>> \/ Lower(s) = <<"n", "u", "l", "l">> THEN default
             ELSE [k \in 1..Len(s) |-> IF s[k] \in Whitespace THEN SPACE_ENC ELSE s[k]]

normalize_token(v, default) ==
    IF v.t = "none" THEN default
    ELSE LET s == Strip(PyStr(v))
         IN  IF s = <<>> \/ Lower(s) = <<"n", "u", "l", "l">> THEN default
             ELSE SubRuns(s)

format_float(v) == IF v.t = "none" THEN <<>> ELSE Strip(PyStr(v))


\* ------------------------------------------------------------------ Config
STATION_LIST_SOURCE == <<"s", "t", "a", "t", "i", "o", "n", "_", "l", "i", "s", "t",
                         "_", "s", "o", "u", "r", "c", "e">>
ETAT_ANTENNES4 == <<"e", "t", "a", "t", "_", "a", "n", "t", "e", "n", "n", "e", "s", "4">>
AUTO == <<"a", "u", "t", "o">>
DEFAULT_VIEW == <<"p", "u", "b", "l", "i", "c", ".">> \o STATION_LIST_SOURCE
DEFAULT_ORDER_BY == <<"m", "p">>
DEFAULT_ANT == <<"0", ".", "0">>
UNKNOWN == <<"U", "N", "K", "N", "O", "W", "N">>
NONE_NONE == <<"N", "O", "N", "E", "|", "N", "O", "N", "E">>
Output == "/config/stations.list"

\* env(name, default): raw is the variable's value, NoneV when it is unset
env(raw, default) ==
    IF raw.t = "none" THEN default
    ELSE IF Strip(raw.s) = <<>> THEN default
    ELSE StrV(Strip(raw.s))

\* the Config load_config builds, before its guardrails run
load_config(e) ==
    LET m == Lower(env(e.MODE, StrV(AUTO)).s)
    IN  [view |-> env(e.VIEW, StrV(DEFAULT_VIEW)).s,
         where_sql |-> env(e.WHERE, NoneV),
         order_by |-> env(e.ORDER_BY, StrV(DEFAULT_ORDER_BY)).s,
         ant_h_default |-> env(e.ANT_H, StrV(DEFAULT_ANT)).s,
         ant_e_default |-> DEFAULT_ANT,
         ant_n_default |-> DEFAULT_ANT,
         once |-> Lower(env(e.ONCE, StrV(<<"f", "a", "l", "s", "e">>)).s)
                     = <<"t", "r", "u", "e">>,
         mode |-> IF m \in {AUTO, STATION_LIST_SOURCE, ETAT_ANTENNES4} THEN m ELSE AUTO]

\* the guardrails of load_config: FALSE when safe_ident raises ValueError
config_valid(c) == safe_ident(c.view) /\ safe_ident(c.order_by)

is_station_list_source_view(c) ==
    IF c.mode = STATION_LIST_SOURCE THEN TRUE
    ELSE IF c.mode = ETAT_ANTENNES4 THEN FALSE
    ELSE EndsWith(Lower(c.view), STATION_LIST_SOURCE)

\* build_sql: the statement, by its parts
build_sql(c) ==
    [columns |-> IF is_station_list_source_view(c) THEN 11 ELSE 6,
     from |-> c.view,
     where |-> IF c.where_sql.t # "none" THEN c.where_sql.s ELSE <<>>,
     order_by |-> c.order_by]

NoSql == [columns |-> 0, from |-> <<>>, where |-> <<>>, order_by |-> <<>>]

\* ------------------------------------------------------------ file content
Comment(key, text, n) == [kind |-> "#", key |-> key, text |-> text, fields |-> <<>>, ts |-> n]
DataLine(fields) == [kind |-> "data", key |-> "", text |-> <<>>, fields |-> fields, ts |-> 0]
Hole == [kind |-> "hole", key |-> "", text |-> <<>>, fields |-> <<>>, ts |-> 0]
Absent == <<[kind |-> "absent", key |-> "", text |-> <<>>, fields |-> <<>>, ts |-> 0]>>

\* a header that prints the schema the resolver chose
header_mode_resolved(c) ==
    IF is_station_list_source_view(c) THEN STATION_LIST_SOURCE ELSE ETAT_ANTENNES4

\* the value of the "# mode=" line
header_mode(c) == c.mode

\* the comment block written before the data lines
header_lines(c, n) ==
    <<Comment("title", <<>>, 0),
      Comment("generated_at_utc", <<>>, n),
      Comment("source", c.view, 0),
      Comment("mode", header_mode(c), 0)>>
    \o (IF c.where_sql.t # "none" /\ c.where_sql.s # <<>>
        THEN <<Comment("where", c.where_sql.s, 0)>> ELSE <<>>)
    \o <<Comment("blank", <<>>, 0),
         Comment("encoding", <<>>, 0),
         Comment("decoding", <<>>, 0),
         Comment("blank", <<>>, 0),
         Comment("legend", <<>>, 0)>>

\* ----------------------------------------------------------- row formatting
\* the default of each column that goes through normalize_token
token_default(c, k, mp_t) ==
    CASE k = 1 -> <<>>
      [] k = 2 -> mp_t
      [] k \in {6, 7} -> UNKNOWN
      [] k = 8 -> NONE_NONE
      [] k = 9 -> c.ant_h_default
      [] k = 10 -> c.ant_e_default
      [] OTHER -> c.ant_n_default

\* the 11 fields of the modern branch
modern_fields(c, row) ==
    LET mp_t == normalize_token(row[1], <<>>)
    IN  [k \in 1..11 |->
            IF k \in 3..5 THEN format_float(row[k])
            ELSE normalize_token(row[k], token_default(c, k, mp_t))]

\* the 11 fields of the legacy branch: columns 4..6 of the row are
\* receiver, version, antenna
legacy_fields(c, row) ==
    LET mp_t == normalize_token(row[1], <<>>)
        xyz == parse_ecef_xyz(row[3])
    IN  [k \in 1..11 |->
            CASE k \in 1..2 -> normalize_token(row[k], token_default(c, k, mp_t))
              [] k \in 3..5 -> IF xyz = <<>> THEN <<>> ELSE xyz[k - 2]
              [] k \in 6..8 -> normalize_token(row[k - 2], token_default(c, k, mp_t))
              [] OTHER -> token_default(c, k, mp_t)]

\* a skip test that is off by one
legacy_skip_off_by_one(row) == Len(row) <= 6

\* the legacy branch skips a row that is too short
legacy_skip(row) == Len(row) < 6

\* which branch of the loop body a row takes
row_path(c, row) ==
    IF Len(row) >= 11 /\ is_station_list_source_view(c) THEN "modern"
    ELSE IF legacy_skip(row) THEN "skip"
    ELSE "legacy"

\* the line the loop body writes for a row that takes branch via, <<>> when
\* the row is skipped
row_lines(c, row, via) ==
    CASE via = "modern" -> <<DataLine(modern_fields(c, row))>>
      [] via = "legacy" -> <<DataLine(legacy_fields(c, row))>>
      [] OTHER -> <<>>

RECURSIVE batch_lines(_, _)
\* the data lines of a whole batch
batch_lines(c, rs) ==
    IF rs = <<>> THEN <<>>
    ELSE row_lines(c, Head(rs), row_path(c, Head(rs))) \o batch_lines(c, Tail(rs))

\* -------------------------------------------------------------------- state
VARIABLES
    environ,    \* the QUERYDB_* environment of the run
    cfg,        \* main: cfg, the Config of each instance
    procs,      \* the instances of the program that run
    pc,         \* where each instance is
    cycle,      \* refresh cycles each instance has started
    rows,       \* loop: the rows of the current cycle
    sql,        \* the last statement build_sql built
    ts,         \* write_station_list: ts
    i,          \* write_station_list: index of the next row
    count,      \* write_station_list: count
    buf,        \* lines written to f and not yet flushed to the file
    fd,         \* f: the inode it is open on (0: closed) and its offset
    dir,        \* the directory: path -> inode (0: no such file)
    files,      \* inode -> content
    clock,      \* now_utc_iso, in ticks
    nFetch,     \* fetch_rows calls
    nWrite,     \* write_station_list calls
    nSleep,     \* time.sleep calls
    failed,     \* the outcome of the last cycle: "none", "query", "write"
    path,       \* the branch the last row took
    ret,        \* the last value write_station_list returned
    exitCode,   \* the process exit status, -1 while it runs
    lastGood,   \* what the last completed write_station_list meant to publish
    tin, tdef, tout, tdone   \* normalize_token applied on its own

vars == <<environ, cfg, procs, pc, cycle, rows, sql, ts, i, count, buf, fd, dir, files,
          clock, nFetch, nWrite, nSleep, failed, path, ret, exitCode, lastGood,
          tin, tdef, tout, tdone>>

tokVars == <<tin, tdef, tout, tdone>>
ioVars == <<buf, fd, dir, files>>
ghostVars == <<nFetch, nWrite, nSleep>>

AllProcs == {1, 2}
Inos == 1..(2 + Cardinality(AllProcs))

\* cfg before load_config returned
NoCfg ==
    [view |-> <<>>, where_sql |-> NoneV, order_by |-> <<>>, ant_h_default |-> <<>>,
     ant_e_default |-> <<>>, ant_n_default |-> <<>>, once |-> FALSE, mode |-> <<>>]

\* out.with_suffix(out.suffix + ".tmp") going wrong: the target itself
tmp_path_in_place(out) == out

\* out.with_suffix(out.suffix + ".tmp")
tmp_path(out) == out \o ".tmp"

Paths == {Output, tmp_path(Output)}

\* ------------------------------------------------------------- file system
Refs(d, f) == {d[q] : q \in DOMAIN d} \cup {f[p].ino : p \in AllProcs}

\* content of unreferenced inodes is gone
Reclaim(fs, d, f) == [n \in Inos |-> IF n \in Refs(d, f) THEN fs[n] ELSE <<>>]

FreeIno(d, f) == CHOOSE n \in Inos : n \notin Refs(d, f) /\ \A m \in Inos : m < n => m \in Refs(d, f)

\* write(2) of data at line offset off
WriteAt(content, off, data) ==
    LET padded == IF Len(content) < off
                  THEN content \o [k \in 1..(off - Len(content)) |-> Hole]
                  ELSE content
    IN  SubSeq(padded, 1, off) \o data \o SubSeq(padded, off + Len(data) + 1, Len(padded))

ContentAt(q) == IF dir[q] = 0 THEN Absent ELSE files[dir[q]]
TargetContent == ContentAt(Output)

\* lines of p's buffer reach the file
Flushed(p, data) == [files EXCEPT ![fd[p].ino] = WriteAt(@, fd[p].off, data)]

\* ------------------------------------------------------------------ inputs
RowModern ==
    <<StrV(<<"A">>), NoneV, StrV(<<"1", ".", "5">>), StrV(<<"2">>), StrV(<<"-", "3", "e", "1">>),
      StrV(<<"R", " ", " ", "X">>), StrV(<<" ", "n", "u", "l", "l">>), StrV(<<"T", "\t", "N">>),
      StrV(<<"0", ".", "1">>), NoneV, StrV(<<>>)>>
RowModernNoXyz ==
    <<StrV(<<"B">>), StrV(<<"B", "_", "1">>), NoneV, NoneV, NoneV,
      StrV(<<"R">>), StrV(<<"v">>), StrV(<<"T">>), NoneV, NoneV, NoneV>>
RowLegacy ==
    <<StrV(<<"C">>), NoneV, StrV(<<"1", ".", "0", ",", " ", "2", ".", "5", ",", " ", "-", "3", "e", "1">>),
      NoneV, StrV(<<"v", "1">>), StrV(<<"T", " ", "N">>)>>
RowLegacyList ==
    <<StrV(<<"D">>), StrV(<<"D">>), ListV(<<<<"1", ".", "0">>, <<"2", ".", "0">>, <<"3", ".", "0">>>>),
      StrV(<<"R">>), StrV(<<"v">>), StrV(<<"T">>)>>
RowLegacyNoEcef ==
    <<StrV(<<"E">>), StrV(<<"E">>), StrV(<<"1", " ", "2">>), StrV(<<"R">>), StrV(<<"v">>), StrV(<<"T">>)>>
RowShort == <<StrV(<<"F">>), StrV(<<"F">>), NoneV, NoneV, NoneV>>

SourceRows == {RowModern, RowModernNoXyz, RowLegacy, RowLegacyList, RowLegacyNoEcef, RowShort}

\* what fetch_rows can return: any list of at most MaxRows rows
Batches(R) == UNION {[1..n -> R] : n \in 0..MaxRows}

EnvViews == {StrV(<<" ", "P", "u", "b", "l", "i", "c", ".", "S", "t", "a", "t", "i", "o", "n", "_",
                    "L", "i", "s", "t", "_", "S", "o", "u", "r", "c", "e", " ">>),
             StrV(ETAT_ANTENNES4),
             StrV(<<"e", "t", "a", "t", ";", "x">>)}
EnvOrders == {StrV(<<"m", "p", ",", " ", "i", "d">>), StrV(<<"f", "(", "x", ")">>)}
EnvModes == {NoneV, StrV(<<"E", "t", "a", "t", "_", "A", "n", "t", "e", "n", "n", "e", "s", "4">>),
             StrV(STATION_LIST_SOURCE)}
EnvOnces == {NoneV, StrV(<<"T", "R", "U", "E">>)}
EnvWheres == {NoneV, StrV(<<"a", "=", "1">>)}

Environs ==
    [VIEW : EnvViews, ORDER_BY : EnvOrders, MODE : EnvModes, ONCE : EnvOnces,
     WHERE : EnvWheres, ANT_H : {NoneV}]

\* -------------------------------------------------------------------- Init
InitWith(P, E) ==
    /\ environ \in E
    /\ cfg = [p \in AllProcs |-> NoCfg]
    /\ procs = P
    /\ pc = [p \in AllProcs |-> IF p \in P THEN "start" ELSE "off"]
    /\ cycle = [p \in AllProcs |-> 0]
    /\ rows = [p \in AllProcs |-> <<>>]
    /\ sql = [p \in AllProcs |-> NoSql]
    /\ ts = [p \in AllProcs |-> 0]
    /\ i = [p \in AllProcs |-> 0]
    /\ count = [p \in AllProcs |-> 0]
    /\ buf = [p \in AllProcs |-> <<>>]
    /\ fd = [p \in AllProcs |-> [ino |-> 0, off |-> 0]]
    /\ dir = [q \in Paths |-> 0]
    /\ files = [n \in Inos |-> <<>>]
    /\ clock = 1
    /\ nFetch = [p \in AllProcs |-> 0]
    /\ nWrite = [p \in AllProcs |-> 0]
    /\ nSleep = [p \in AllProcs |-> 0]
    /\ failed = [p \in AllProcs |-> "none"]
    /\ path = [p \in AllProcs |-> "none"]
    /\ ret = [p \in AllProcs |-> 0]
    /\ exitCode = [p \in AllProcs |-> -1]
    /\ lastGood = Absent

TokIdle == tin = NoneV /\ tdef = <<>> /\ tout = <<>> /\ tdone = FALSE

\* write_station_list returns or raises: its frame, with ts, i (the position
\* in rows), count and the branch taken for the last row, is gone
WsLeave(p) ==
    /\ ts' = [ts EXCEPT ![p] = 0]
    /\ i' = [i EXCEPT ![p] = 0]
    /\ count' = [count EXCEPT ![p] = 0]
    /\ path' = [path EXCEPT ![p] = "none"]

\* ------------------------------------------------------------------- main
\* main: load_config, then the start banner; a ValueError is not caught
LoadConfig(p) ==
    /\ pc[p] = "start"
    /\ LET c == load_config(environ)
       IN  IF config_valid(c)
           THEN /\ cfg' = [cfg EXCEPT ![p] = c]
                /\ pc' = [pc EXCEPT ![p] = "loop_top"]
                /\ UNCHANGED exitCode
           ELSE /\ pc' = [pc EXCEPT ![p] = "config_error"]
                /\ exitCode' = [exitCode EXCEPT ![p] = 1]
                /\ UNCHANGED cfg
    /\ UNCHANGED <<environ, procs, cycle, rows, sql, ts, i, count, clock, failed, path,
                   ret, lastGood>>
    /\ UNCHANGED <<ioVars, ghostVars, tokVars>>

\* a handler that lets a failed write through
loop_catches_query_only(kind) == kind = "query"

\* loop: except Exception
loop_catches(kind) == kind \in {"query", "write"}

\* where an exception raised inside the try block of loop goes
Raise(p, kind) ==
    /\ failed' = [failed EXCEPT ![p] = kind]
    /\ IF loop_catches(kind)
       THEN pc' = [pc EXCEPT ![p] = "after_try"] /\ UNCHANGED exitCode
       ELSE pc' = [pc EXCEPT ![p] = "crashed"] /\ exitCode' = [exitCode EXCEPT ![p] = 1]

\* loop: fetch_rows returns the rows of the view
FetchOk(p, R) ==
    /\ pc[p] = "loop_top"
    /\ cycle[p] < MaxCycles
    /\ \E b \in Batches(R) : rows' = [rows EXCEPT ![p] = b]
    /\ sql' = [sql EXCEPT ![p] = build_sql(cfg[p])]
    /\ cycle' = [cycle EXCEPT ![p] = @ + 1]
    /\ nFetch' = [nFetch EXCEPT ![p] = @ + 1]
    /\ pc' = [pc EXCEPT ![p] = "ws_open"]
    /\ UNCHANGED <<environ, cfg, procs, ts, i, count, clock, nWrite, nSleep, failed, path, ret,
                   exitCode, lastGood>>
    /\ UNCHANGED <<ioVars, tokVars>>

\* loop: fetch_rows raises (no connection, a failing query)
FetchFail(p) ==
    /\ pc[p] = "loop_top"
    /\ cycle[p] < MaxCycles
    /\ sql' = [sql EXCEPT ![p] = build_sql(cfg[p])]
    /\ cycle' = [cycle EXCEPT ![p] = @ + 1]
    /\ nFetch' = [nFetch EXCEPT ![p] = @ + 1]
    /\ Raise(p, "query")
    /\ UNCHANGED <<environ, cfg, procs, rows, ts, i, count, clock, nWrite, nSleep, path, ret,
                   lastGood>>
    /\ UNCHANGED <<ioVars, tokVars>>

\* --------------------------------------------------------- write_station_list
\* ts, mkdir, tmp, build_sql, count = 0, tmp.open("w")
WsOpen(p) ==
    /\ pc[p] = "ws_open"
    /\ ts' = [ts EXCEPT ![p] = clock]
    /\ clock' = clock + 1
    /\ sql' = [sql EXCEPT ![p] = build_sql(cfg[p])]
    /\ count' = [count EXCEPT ![p] = 0]
    /\ i' = [i EXCEPT ![p] = 1]
    /\ nWrite' = [nWrite EXCEPT ![p] = @ + 1]
    /\ LET q == tmp_path(Output)
           n == IF dir[q] # 0 THEN dir[q] ELSE FreeIno(dir, fd)
       IN  /\ dir' = [dir EXCEPT ![q] = n]
           /\ fd' = [fd EXCEPT ![p] = [ino |-> n, off |-> 0]]
           /\ files' = [files EXCEPT ![n] = <<>>]
    /\ buf' = [buf EXCEPT ![p] = <<>>]
    /\ pc' = [pc EXCEPT ![p] = "ws_header"]
    /\ UNCHANGED <<environ, cfg, procs, cycle, rows, nFetch, nSleep, failed, path, ret,
                   exitCode, lastGood, tokVars>>

\* the f.write calls of the header
WsHeader(p) ==
    /\ pc[p] = "ws_header"
    /\ buf' = [buf EXCEPT ![p] = @ \o header_lines(cfg[p], ts[p])]
    /\ pc' = [pc EXCEPT ![p] = "ws_rows"]
    /\ UNCHANGED <<environ, cfg, procs, cycle, rows, sql, ts, i, count, fd, dir, files, clock,
                   failed, path, ret, exitCode, lastGood>>
    /\ UNCHANGED <<ghostVars, tokVars>>

\* one iteration of "for row in rows"
WsRow(p) ==
    /\ pc[p] = "ws_rows"
    /\ i[p] <= Len(rows[p])
    /\ path' = [path EXCEPT ![p] = row_path(cfg[p], rows[p][i[p]])]
    /\ buf' = [buf EXCEPT ![p] = @ \o row_lines(cfg[p], rows[p][i[p]], path'[p])]
    /\ count' = [count EXCEPT ![p] = IF path'[p] = "skip" THEN @ ELSE @ + 1]
    /\ i' = [i EXCEPT ![p] = @ + 1]
    /\ UNCHANGED <<environ, cfg, procs, pc, cycle, rows, sql, ts, fd, dir, files, clock,
                   failed, ret, exitCode, lastGood>>
    /\ UNCHANGED <<ghostVars, tokVars>>

\* the buffer of f fills up and is written out
WsFlush(p) ==
    /\ pc[p] = "ws_rows"
    /\ buf[p] # <<>>
    /\ files' = Flushed(p, buf[p])
    /\ fd' = [fd EXCEPT ![p].off = @ + Len(buf[p])]
    /\ buf' = [buf EXCEPT ![p] = <<>>]
    /\ UNCHANGED <<environ, cfg, procs, pc, cycle, rows, sql, ts, i, count, dir, clock,
                   failed, path, ret, exitCode, lastGood>>
    /\ UNCHANGED <<ghostVars, tokVars>>

\* the with block ends: f is flushed and closed
WsClose(p) ==
    /\ pc[p] = "ws_rows"
    /\ i[p] > Len(rows[p])
    /\ LET f == [fd EXCEPT ![p] = [ino |-> 0, off |-> 0]]
       IN  /\ fd' = f
           /\ files' = Reclaim(Flushed(p, buf[p]), dir, f)
    /\ buf' = [buf EXCEPT ![p] = <<>>]
    /\ pc' = [pc EXCEPT ![p] = "ws_rename"]
    /\ UNCHANGED <<environ, cfg, procs, cycle, rows, sql, ts, i, count, dir, clock,
                   failed, path, ret, exitCode, lastGood>>
    /\ UNCHANGED <<ghostVars, tokVars>>

\* tmp.replace(out); return count.  rename(2) of a missing path raises
\* FileNotFoundError, of a path onto itself does nothing.
WsReplace(p) ==
    /\ pc[p] = "ws_rename"
    /\ LET q == tmp_path(Output)
       IN  IF dir[q] = 0
           THEN /\ Raise(p, "write")
                /\ UNCHANGED <<dir, files, ret, lastGood>>
           ELSE /\ dir' = IF q = Output THEN dir
                          ELSE [dir EXCEPT ![Output] = dir[q], ![q] = 0]
                /\ files' = Reclaim(files, dir', fd)
                /\ ret' = [ret EXCEPT ![p] = count[p]]
                /\ lastGood' = header_lines(cfg[p], ts[p]) \o batch_lines(cfg[p], rows[p])
                /\ failed' = [failed EXCEPT ![p] = "none"]
                /\ pc' = [pc EXCEPT ![p] = "after_try"]
                /\ UNCHANGED exitCode
    /\ WsLeave(p)
    /\ UNCHANGED <<environ, cfg, procs, cycle, rows, sql, buf, fd, clock>>
    /\ UNCHANGED <<ghostVars, tokVars>>

\* an OSError inside write_station_list: mkdir or open, a write (of what was
\* pending, nothing or all but the failing write reaches the file), the rename
WsFail(p) ==
    /\ pc[p] \in {"ws_open", "ws_header", "ws_rows", "ws_rename"}
    /\ IF fd[p].ino # 0
       THEN LET f == [fd EXCEPT ![p] = [ino |-> 0, off |-> 0]]
                h == header_lines(cfg[p], ts[p])
                pending == IF pc[p] = "ws_header" THEN SubSeq(h, 1, Len(h) - 1) ELSE buf[p]
            IN  /\ fd' = f
                /\ \E k \in {0, Len(pending)} :
                       files' = Reclaim(Flushed(p, SubSeq(pending, 1, k)), dir, f)
       ELSE UNCHANGED <<fd, files>>
    /\ nWrite' = [nWrite EXCEPT ![p] = IF pc[p] = "ws_open" THEN @ + 1 ELSE @]
    /\ buf' = [buf EXCEPT ![p] = <<>>]
    /\ Raise(p, "write")
    /\ WsLeave(p)
    /\ UNCHANGED <<environ, cfg, procs, cycle, rows, sql, dir, clock, nFetch, nSleep, ret,
                   lastGood, tokVars>>

\* ------------------------------------------------------------------- loop
\* a loop that never takes the run-once exit
loop_returns_never(c) == FALSE

\* loop: if cfg.once: return
loop_returns(c) == c.once

\* loop returns, main returns 0
LoopReturn(p) ==
    /\ pc[p] = "after_try"
    /\ loop_returns(cfg[p])
    /\ pc' = [pc EXCEPT ![p] = "exited"]
    /\ exitCode' = [exitCode EXCEPT ![p] = 0]
    /\ UNCHANGED <<environ, cfg, procs, cycle, rows, sql, ts, i, count, clock, failed, path,
                   ret, lastGood>>
    /\ UNCHANGED <<ioVars, ghostVars, tokVars>>

\* time.sleep(cfg.interval_s), then the next iteration
Sleep(p) ==
    /\ pc[p] = "after_try"
    /\ ~loop_returns(cfg[p])
    /\ nSleep' = [nSleep EXCEPT ![p] = @ + 1]
    /\ pc' = [pc EXCEPT ![p] = "loop_top"]
    /\ UNCHANGED <<environ, cfg, procs, cycle, rows, sql, ts, i, count, clock, nFetch, nWrite,
                   failed, path, ret, exitCode, lastGood>>
    /\ UNCHANGED <<ioVars, tokVars>>

\* ---------------------------------------------------------- specifications
\* the rows a query returns here: rows of the width of the SELECT list that
\* build_sql made for the configuration, and rows too short to be written
MainRows(c) == {IF is_station_list_source_view(c) THEN RowModern ELSE RowLegacy, RowShort}

Init == InitWith({1}, Environs) /\ TokIdle

Next ==
    \/ \E p \in procs : LoadConfig(p)
    \/ \E p \in procs : FetchOk(p, MainRows(cfg[p]))
    \/ \E p \in procs : FetchFail(p)
    \/ \E p \in procs : WsOpen(p)
    \/ \E p \in procs : WsHeader(p)
    \/ \E p \in procs : WsRow(p)
    \/ \E p \in procs : WsFlush(p)
    \/ \E p \in procs : WsClose(p)
    \/ \E p \in procs : WsReplace(p)
    \/ \E p \in procs : WsFail(p)
    \/ \E p \in procs : LoopReturn(p)
    \/ \E p \in procs : Sleep(p)

\* one instance of the program, with failing queries and failing file operations
Spec == Init /\ [][Next]_vars

\* two run-once instances that share the environment and the output path; no
\* operation fails on its own
TwoEnvirons == {e \in Environs : e.ONCE # NoneV /\ e.WHERE = NoneV /\ e.MODE = NoneV}
TwoRows == {RowModern, RowShort}

Init2 == InitWith({1, 2}, TwoEnvirons) /\ TokIdle

Next2 ==
    \/ \E p \in procs : LoadConfig(p)
    \/ \E p \in procs : FetchOk(p, TwoRows)
    \/ \E p \in procs : WsOpen(p)
    \/ \E p \in procs : WsHeader(p)
    \/ \E p \in procs : WsRow(p)
    \/ \E p \in procs : WsFlush(p)
    \/ \E p \in procs : WsClose(p)
    \/ \E p \in procs : WsReplace(p)
    \/ \E p \in procs : LoopReturn(p)

Spec2W == Init2 /\ [][Next2]_vars

\* one run-once instance on which nothing fails, over every kind of row
FmtEnvirons == {e \in Environs : e.ONCE # NoneV}

InitFmt == InitWith({1}, FmtEnvirons) /\ TokIdle

NextFmt ==
    \/ \E p \in procs : LoadConfig(p)
    \/ \E p \in procs : FetchOk(p, SourceRows)
    \/ \E p \in procs : WsOpen(p)
    \/ \E p \in procs : WsHeader(p)
    \/ \E p \in procs : WsRow(p)
    \/ \E p \in procs : WsFlush(p)
    \/ \E p \in procs : WsClose(p)
    \/ \E p \in procs : WsReplace(p)
    \/ \E p \in procs : LoopReturn(p)

SpecFmt == InitFmt /\ [][NextFmt]_vars

\* normalize_token on its own, over every short text
TokChars == {"n", "N", "u", "l", "_", "|", " ", "\t"}
TokTexts == UNION {[1..n -> TokChars] : n \in 0..MaxLen}

InitTok ==
    /\ InitWith({}, {CHOOSE e \in Environs : TRUE})
    /\ tin \in {NoneV} \cup {StrV(s) : s \in TokTexts}
    /\ tdef \in {<<>>, UNKNOWN}
    /\ tout = <<>>
    /\ tdone = FALSE

Normalize ==
    /\ ~tdone
    /\ tout' = normalize_token(tin, tdef)
    /\ tdone' = TRUE
    /\ UNCHANGED <<environ, cfg, procs, pc, cycle, rows, sql, ts, i, count, clock, failed, path,
                   ret, exitCode, lastGood, tin, tdef>>
    /\ UNCHANGED <<ioVars, ghostVars>>

NextTok == Normalize

SpecTok == InitTok /\ [][NextTok]_vars

\* one instance that keeps running: time.sleep returns after the interval,
\* and a call of fetch_rows returns or raises
SpecLive ==
    /\ Init /\ [][Next]_vars
    /\ WF_vars(Sleep(1))
    /\ WF_vars(FetchOk(1, MainRows(cfg[1])) \/ FetchFail(1))

\* ------------------------------------------------------------------ claims
TmpContent == ContentAt(tmp_path(Output))
DataLines(content) == SelectSeq(content, LAMBDA ln : ln.kind = "data")
ModeLines(content) == SelectSeq(content, LAMBDA ln : ln.kind = "#" /\ ln.key = "mode")
LoopPcs == {"loop_top", "ws_open", "ws_header", "ws_rows", "ws_rename", "after_try"}

\* C1: with one writer, what can be read at the output path is at every step
\* either no file or the complete output (header and every data line) of the
\* last cycle whose rename succeeded; header and data lines of a running or
\* failed cycle are never visible there.
C1_TargetAlwaysComplete == TargetContent = lastGood

\* a second cycle failed part-way, leaving part of a file at the .tmp path
\* and the first cycle's file at the target
C1_Witness ==
    /\ cycle[1] = 2 /\ pc[1] = "after_try" /\ failed[1] = "write"
    /\ TargetContent # Absent
    /\ TmpContent # Absent /\ TmpContent # <<>> /\ TmpContent # TargetContent

\* C2: when the run-once flag is off, a cycle that fails in fetch_rows or in
\* write_station_list never ends the process: the instance stays in the loop,
\* its next step after the failure is the interval sleep, which leads back to
\* the top of the loop, and (below the cycle cap) another cycle starts.
C2_FailureNeverFatal ==
    /\ [][\A p \in AllProcs :
            (p \in procs /\ ~cfg[p].once /\ pc[p] \in LoopPcs) =>
                /\ pc'[p] \in LoopPcs
                /\ exitCode'[p] = -1
                /\ (pc[p] = "after_try" /\ pc'[p] # pc[p]) =>
                       (pc'[p] = "loop_top" /\ nSleep'[p] = nSleep[p] + 1)]_vars
    /\ \A c \in 1..(MaxCycles - 1) :
           (~cfg[1].once /\ pc[1] = "after_try" /\ failed[1] # "none" /\ cycle[1] = c)
               ~> (cycle[1] = c + 1 /\ nFetch[1] = c + 1 /\ nSleep[1] >= c)

\* a failed write is followed by a sleep and a new cycle
C2_Witness ==
    /\ ~cfg[1].once /\ cycle[1] = 2 /\ nSleep[1] = 1 /\ failed[1] = "write"
    /\ pc[1] = "ws_open"

\* C3: with the run-once flag set there is no interval sleep, at most one
\* query and at most one write are attempted, the loop is left after the
\* first cycle whatever its outcome, and the process ends with exactly one
\* query attempted and exit status 0.
C3_RunOnce ==
    \A p \in procs :
        cfg[p].once =>
            /\ nSleep[p] = 0 /\ nFetch[p] <= 1 /\ nWrite[p] <= 1
            /\ cycle[p] >= 1 => pc[p] # "loop_top"
            /\ pc[p] = "after_try" => ENABLED LoopReturn(p)
            /\ pc[p] = "exited" => (nFetch[p] = 1 /\ exitCode[p] = 0)

\* a run-once process ended after a cycle whose write failed
C3_Witness ==
    /\ cfg[1].once /\ pc[1] = "exited" /\ failed[1] = "write"
    /\ nFetch[1] = 1 /\ nWrite[1] = 1

HasCharOutsideAllowList(raw) ==
    /\ raw.t = "str"
    /\ \E k \in 1..Len(raw.s) :
           raw.s[k] \notin Letters \cup Digits \cup {"_", ".", ","} \cup Whitespace

\* C4: when the configured view or ORDER BY holds a character outside
\* letters, digits, underscore, dot, comma and whitespace, the process gets no
\* further than the configuration error: no statement is built, no query and
\* no write is attempted, and no file appears at the output or .tmp path.
C4_BadIdentStopsAtStartup ==
    (HasCharOutsideAllowList(environ.VIEW) \/ HasCharOutsideAllowList(environ.ORDER_BY)) =>
        /\ \A p \in procs :
               /\ pc[p] \in {"start", "config_error"}
               /\ nFetch[p] = 0 /\ nWrite[p] = 0 /\ sql[p] = NoSql
        /\ TargetContent = Absent /\ TmpContent = Absent

\* a view name with a semicolon ended the process at startup
C4_Witness ==
    /\ HasCharOutsideAllowList(environ.VIEW)
    /\ pc[1] = "config_error" /\ exitCode[1] = 1

\* C5: every data line of the file holds 11 fields, each non-empty and free
\* of whitespace.
C5_FieldsNonEmptyNoWhitespace ==
    \A k \in 1..Len(DataLines(TargetContent)) :
        LET f == DataLines(TargetContent)[k].fields
        IN  /\ Len(f) = 11
            /\ \A j \in 1..Len(f) : f[j] # <<>> /\ \A m \in 1..Len(f[j]) : f[j][m] \notin Whitespace

RECURSIVE RunsEncoded(_, _, _)
\* text with its whitespace runs encoded, read from position k: a run that
\* starts the text or ends it is encoded too when edges is TRUE, and is
\* dropped otherwise
RunsEncoded(s, k, edges) ==
    IF k > Len(s) THEN <<>>
    ELSE IF s[k] \notin Whitespace THEN <<s[k]>> \o RunsEncoded(s, k + 1, edges)
    ELSE LET firstOfRun == k = 1 \/ s[k - 1] \notin Whitespace
             leading == \A j \in 1..k : s[j] \in Whitespace
             trailing == \A j \in k..Len(s) : s[j] \in Whitespace
         IN  (IF firstOfRun /\ (edges \/ (~leading /\ ~trailing)) THEN <<"|">> ELSE <<>>)
                 \o RunsEncoded(s, k + 1, edges)

\* the input is text with a whitespace run, and is not taken for absent:
\* it is not blank, and it is not the word null between blanks
HasRunAndIsKept ==
    /\ tin.t = "str"
    /\ \E k \in 1..Len(tin.s) : tin.s[k] \in Whitespace
    /\ \E k \in 1..Len(tin.s) : tin.s[k] \notin Whitespace
    /\ \/ Lower(SelectSeq(tin.s, LAMBDA ch : ch \notin Whitespace)) # <<"n", "u", "l", "l">>
       \/ \E a, k, b \in 1..Len(tin.s) :
              /\ a < k /\ k < b
              /\ tin.s[a] \notin Whitespace /\ tin.s[k] \in Whitespace
              /\ tin.s[b] \notin Whitespace

\* C7 as stated: every whitespace run of the input becomes one '|', every
\* other character is kept in place, and the result has no whitespace.
C7_EveryRunEncoded ==
    (tdone /\ HasRunAndIsKept) =>
        /\ tout = RunsEncoded(tin.s, 1, TRUE)
        /\ \A k \in 1..Len(tout) : tout[k] \notin Whitespace

\* C7: leading and trailing whitespace runs are removed, every whitespace
\* run between two other characters becomes one '|', every other character
\* (underscores too) is kept in place, and the result has no whitespace.
C7_InternalRunsEncoded ==
    (tdone /\ HasRunAndIsKept) =>
        /\ tout = RunsEncoded(tin.s, 1, FALSE)
        /\ \A k \in 1..Len(tout) : tout[k] \notin Whitespace

\* a token with a leading run, an underscore and an internal run
C7_Witness ==
    /\ tdone /\ HasRunAndIsKept
    /\ tin = StrV(<<" ", "_", "\t", "n">>)
    /\ tout = <<"_", "|", "n">>

C9_HeaderModeResolved ==
    TargetContent # Absent =>
        /\ Len(ModeLines(TargetContent)) = 1
        /\ ModeLines(TargetContent)[1].text =
               (IF is_station_list_source_view(cfg[1]) THEN STATION_LIST_SOURCE ELSE ETAT_ANTENNES4)

\* C9: the "# mode=" line of the file carries the configured mode as
\* load_config normalised it: the name of the schema used when the mode is
\* explicit, and "auto" exactly when the mode is auto, whatever schema the
\* view name then resolves to.
C9_HeaderModeConfigured ==
    TargetContent # Absent =>
        /\ Len(ModeLines(TargetContent)) = 1
        /\ LET text == ModeLines(TargetContent)[1].text
           IN  /\ text \in {AUTO, STATION_LIST_SOURCE, ETAT_ANTENNES4}
               /\ text = STATION_LIST_SOURCE => \A p \in procs : sql[p].columns = 11
               /\ text = ETAT_ANTENNES4 => \A p \in procs : sql[p].columns = 6
               /\ text = AUTO <=>
                      (environ.MODE = NoneV
                       \/ Lower(Strip(environ.MODE.s)) \notin {STATION_LIST_SOURCE, ETAT_ANTENNES4})

\* a file written under mode auto with the modern query
C9_Witness ==
    /\ TargetContent # Absent
    /\ environ.MODE = NoneV
    /\ sql[1].columns = 11
    /\ ModeLines(TargetContent)[1].text = AUTO

\* C10: with two writers on one output path, under every interleaving both
\* cycles end without error and the target holds the complete output of the
\* writer whose rename came last.
C10_TwoWritersSafe ==
    /\ TargetContent = lastGood
    /\ \A p \in procs : failed[p] = "none"

=============================================================================
